---- MODULE Spec2Model ----
(***************************************************************************)
(* Enigma: burn-after-reading secret sharing.                              *)
(*                                                                         *)
(* The model covers the relay (POST/GET of /api/secret over a Redis store  *)
(* with SETEX and GETDEL), the two sender forms (the bare-key form and the *)
(* PIN form of CreateSecretForm) and the receiver component ViewSecret.    *)
(* Cryptographic values are symbolic terms: an AES-GCM ciphertext names    *)
(* the key, the nonce and the payload it was made from, and decryption     *)
(* succeeds exactly when key and nonce match.  Text encodings (hex,        *)
(* base64, JSON, URI component) are tagged wrappers that only their own    *)
(* decoder opens.                                                          *)
(***************************************************************************)
EXTENDS Integers, Sequences, FiniteSets, TLC

VARIABLES store, now, nextId, rng, snd, rcv, api, shared, relaySeen, hist, posts, cr

vars == <<store, now, nextId, rng, snd, rcv, api, shared, relaySeen, hist, posts, cr>>

(***************************************************************************)
(* Bounds of the model.                                                    *)
(***************************************************************************)
MaxSecrets == 2
NumCallers == 2

\* The two sender forms: the bare-key form and the PIN form.
Senders == {"direct", "pin"}
\* One ViewSecret instance: a browser tab.  Tabs share nothing but the relay,
\* which every other client reaches as a caller of its HTTP interface.
Receivers == {"tab"}
Callers == 1..NumCallers

(***************************************************************************)
(* Texts are sequences of characters.                                      *)
(***************************************************************************)
RECURSIVE TrimLeft(_)
TrimLeft(s) == IF s # <<>> /\ Head(s) = " " THEN TrimLeft(Tail(s)) ELSE s

RECURSIVE TrimRight(_)
TrimRight(s) ==
    IF s # <<>> /\ s[Len(s)] = " " THEN TrimRight(SubSeq(s, 1, Len(s) - 1)) ELSE s

Trim(s) == TrimRight(TrimLeft(s))

ReceiverPins == { <<"1", "2", "3", "4">>, <<"0", "0", "0", "0">> }

Undefined == [t |-> "undefined"]

(***************************************************************************)
(* Exceptions.  A message is a sequence of text pieces, cut so that every  *)
(* substring the code searches for is a run of whole pieces.               *)
(***************************************************************************)
Includes(msg, needle) ==
    \E i \in 1..(Len(msg) - Len(needle) + 1) :
        SubSeq(msg, i, i + Len(needle) - 1) = needle

Throw(name, message) == [ok |-> FALSE, name |-> name, message |-> message]
Return(v) == [ok |-> TRUE, val |-> v]

\* The message of the OperationError that crypto.subtle.decrypt rejects with is
\* chosen by the engine: some give none, some a sentence.
OperationErrorMessages ==
    { <<>>,
      <<"The ", "operation", " failed for an ", "operation", "-specific reason">> }

(***************************************************************************)
(* Codec.                                                                  *)
(***************************************************************************)
arrayBufferToHex(buffer) == [t |-> "hex", of |-> buffer]

hexToArrayBuffer(hex) ==
    IF hex.t = "hex"
    THEN Return(hex.of)
    ELSE Throw("TypeError", <<"Cannot read properties of undefined">>)

btoa(s) == [t |-> "b64", of |-> s]

atob(s) ==
    IF s.t = "b64"
    THEN Return(s.of)
    ELSE Throw("InvalidCharacterError",
               <<"The string to be decoded is not correctly encoded">>)

JSONstringify(v) == [t |-> "json", of |-> v]

JSONparse(s) ==
    IF s.t = "json"
    THEN Return(s.of)
    ELSE Throw("SyntaxError", <<"Unexpected token">>)

encodeURIComponent(s) == [t |-> "uri", of |-> s]

decodeURIComponent(s) ==
    IF s.t = "uri" THEN Return(s.of) ELSE Throw("URIError", <<"URI malformed">>)

(***************************************************************************)
(* Web Crypto, symbolically.                                               *)
(***************************************************************************)
AesKey(n) == [t |-> "key", n |-> n]

\* a generator that gives the same twelve bytes every time
NonceRepeats(n) == [t |-> "iv", n |-> 0]

Nonce(n) == [t |-> "iv", n |-> n]

Salt(n) == [t |-> "salt", n |-> n]

RawKey(key) == [t |-> "raw", of |-> key]

SubtleEncrypt(key, iv, data) ==
    [t |-> "ct", key |-> key, iv |-> iv, data |-> data]

SubtleDecrypt(key, iv, ct, msg) ==
    IF ct.t = "ct" /\ ct.key = key /\ ct.iv = iv
    THEN Return(ct.data)
    ELSE Throw("OperationError", msg)

TextEncode(text) == [t |-> "utf8", of |-> text]

TextDecode(bytes) == IF bytes.t = "utf8" THEN bytes.of ELSE <<"?">>

\* encrypt: iv is the value crypto.getRandomValues returned
encrypt(text, key, iv) ==
    [encryptedHex |-> arrayBufferToHex(SubtleEncrypt(key, iv, TextEncode(text))),
     ivHex |-> arrayBufferToHex(iv)]

deriveKeyFromPin(pin, salt) == [t |-> "pinkey", pin |-> pin, salt |-> salt]

\* encryptKeyWithPin: salt and keyIv are the values crypto.getRandomValues returned
encryptKeyWithPin(key, pin, salt, keyIv) ==
    [encryptedKeyHex |->
        arrayBufferToHex(SubtleEncrypt(deriveKeyFromPin(pin, salt), keyIv, RawKey(key))),
     keyIvHex |-> arrayBufferToHex(keyIv),
     saltHex |-> arrayBufferToHex(salt)]

exportKey(key) == btoa(RawKey(key))

ImportRawKey(data) ==
    IF data.t = "raw"
    THEN Return(data.of)
    ELSE Throw("DataError", <<"Invalid key length">>)

\* decryptKeyWithPin: msg is the message the engine gives an OperationError
decryptKeyWithPin(encryptedKeyHex, keyIvHex, saltHex, pin, msg) ==
    LET salt == hexToArrayBuffer(saltHex)
        encryptedKey == hexToArrayBuffer(encryptedKeyHex)
        keyIv == hexToArrayBuffer(keyIvHex)
    IN  IF ~salt.ok THEN salt
        ELSE IF ~encryptedKey.ok THEN encryptedKey
        ELSE IF ~keyIv.ok THEN keyIv
        ELSE LET decryptedKeyData ==
                     SubtleDecrypt(deriveKeyFromPin(pin, salt.val), keyIv.val,
                                   encryptedKey.val, msg)
             IN  IF ~decryptedKeyData.ok THEN decryptedKeyData
                 ELSE ImportRawKey(decryptedKeyData.val)

decryptWithKey(encryptedHex, key, ivHex, msg) ==
    LET encrypted == hexToArrayBuffer(encryptedHex)
        iv == hexToArrayBuffer(ivHex)
    IN  IF ~encrypted.ok THEN encrypted
        ELSE IF ~iv.ok THEN iv
        ELSE LET decrypted == SubtleDecrypt(key, iv.val, encrypted.val, msg)
             IN  IF ~decrypted.ok THEN decrypted
                 ELSE Return(TextDecode(decrypted.val))

(***************************************************************************)
(* The crypto functions on bytes.  A buffer is a sequence of bytes, a text *)
(* a sequence of code points, a hex string a sequence of digits.  AES-GCM  *)
(* is stood for by a keyed mask with a tag over key, nonce and data, and   *)
(* PBKDF2 by a digest of PIN and salt.                                     *)
(***************************************************************************)
Digits16 ==
    <<"0", "1", "2", "3", "4", "5", "6", "7", "8", "9", "a", "b", "c", "d", "e", "f">>

\* b.toString(16)
toString16(b) ==
    IF b < 16 THEN <<Digits16[b + 1]>>
    ELSE <<Digits16[(b \div 16) + 1], Digits16[(b % 16) + 1]>>

\* a padStart that adds nothing
padStartNothing(s) == s

\* s.padStart(2, "0")
padStart2(s) == IF Len(s) < 2 THEN <<"0">> \o s ELSE s

\* arrayBufferToHex on bytes
RECURSIVE HexOfBytes(_)
HexOfBytes(bytes) ==
    IF bytes = <<>> THEN <<>>
    ELSE padStart2(toString16(Head(bytes))) \o HexOfBytes(Tail(bytes))

IsHexDigit(ch) == \E k \in 1..16 : Digits16[k] = ch

DigitValue(ch) == (CHOOSE k \in 1..16 : Digits16[k] = ch) - 1

NaN == [t |-> "NaN"]

\* parseInt(s, 16) of at most two characters, each a hex digit or a character
\* that is no digit, sign, blank or "x": the digits before the first other
\* character are read, and NaN is the result when there is none
parseInt16(s) ==
    IF s = <<>> \/ ~IsHexDigit(s[1]) THEN NaN
    ELSE IF Len(s) = 1 \/ ~IsHexDigit(s[2]) THEN [t |-> "num", n |-> DigitValue(s[1])]
    ELSE [t |-> "num", n |-> 16 * DigitValue(s[1]) + DigitValue(s[2])]

\* bytes[k] = v on a Uint8Array: NaN is stored as 0
ToUint8(v) == IF v.t = "NaN" THEN 0 ELSE v.n % 256

\* hexToArrayBuffer on digits: new Uint8Array(hex.length / 2) has the whole
\* part of hex.length / 2 bytes, byte i/2 comes from hex.substr(i, 2), and a
\* write past the end of the array does nothing
BytesOfHex(hex) ==
    [k \in 1..(Len(hex) \div 2) |-> ToUint8(parseInt16(SubSeq(hex, 2 * k - 1, 2 * k)))]

\* TextEncoder.encode of one code point
Utf8Of(cp) ==
    IF cp < 128 THEN <<cp>>
    ELSE IF cp < 2048 THEN <<192 + (cp \div 64), 128 + (cp % 64)>>
    ELSE <<224 + (cp \div 4096), 128 + ((cp \div 64) % 64), 128 + (cp % 64)>>

RECURSIVE Utf8Encode(_)
Utf8Encode(text) ==
    IF text = <<>> THEN <<>> ELSE Utf8Of(Head(text)) \o Utf8Encode(Tail(text))

\* TextDecoder.decode of well-formed UTF-8
RECURSIVE Utf8Decode(_)
Utf8Decode(bytes) ==
    IF bytes = <<>> THEN <<>>
    ELSE IF bytes[1] < 128 \/ Len(bytes) < 2
    THEN <<bytes[1]>> \o Utf8Decode(Tail(bytes))
    ELSE IF bytes[1] < 224 \/ Len(bytes) < 3
    THEN <<(bytes[1] - 192) * 64 + (bytes[2] - 128)>>
             \o Utf8Decode(SubSeq(bytes, 3, Len(bytes)))
    ELSE <<(bytes[1] - 224) * 4096 + (bytes[2] - 128) * 64 + (bytes[3] - 128)>>
             \o Utf8Decode(SubSeq(bytes, 4, Len(bytes)))

RECURSIVE Sum(_)
Sum(seq) == IF seq = <<>> THEN 0 ELSE Head(seq) + Sum(Tail(seq))

At(seq, i) == IF seq = <<>> THEN 0 ELSE seq[((i - 1) % Len(seq)) + 1]

GcmTag(key, iv, data) ==
    <<(3 * Sum(key) + 5 * Sum(iv) + 7 * Sum(data) + Len(data)) % 256,
      (At(key, 1) + 2 * At(iv, 1) + Len(key) + 4 * Len(iv)) % 256>>

\* crypto.subtle.encrypt with AES-GCM: the masked data, then the tag
SealBytes(key, iv, data) ==
    [i \in 1..Len(data) |-> (data[i] + At(key, i) + At(iv, i)) % 256]
        \o GcmTag(key, iv, data)

\* crypto.subtle.decrypt with AES-GCM: the data, or an OperationError when
\* the tag does not fit key, nonce and data
OpenBytes(key, iv, ct, msg) ==
    IF Len(ct) < 2 THEN Throw("OperationError", msg)
    ELSE LET n == Len(ct) - 2
             data == [i \in 1..n |-> (ct[i] + 512 - At(key, i) - At(iv, i)) % 256]
         IN  IF GcmTag(key, iv, data) = SubSeq(ct, n + 1, n + 2)
             THEN Return(data)
             ELSE Throw("OperationError", msg)

\* encrypt on bytes: key is the raw key, iv what crypto.getRandomValues gave
encryptBytes(text, key, iv) ==
    [encryptedHex |-> HexOfBytes(SealBytes(key, iv, Utf8Encode(text))),
     ivHex |-> HexOfBytes(iv)]

\* decryptWithKey on bytes
decryptWithKeyBytes(encryptedHex, key, ivHex, msg) ==
    LET encrypted == BytesOfHex(encryptedHex)
        iv == BytesOfHex(ivHex)
        decrypted == OpenBytes(key, iv, encrypted, msg)
    IN  IF ~decrypted.ok THEN decrypted ELSE Return(Utf8Decode(decrypted.val))

\* a derivation that leaves the PIN out
Pbkdf2OfSaltOnly(pin, salt) == <<Sum(salt) % 256, (17 + 5 * At(salt, 1)) % 256>>

\* deriveKeyFromPin on bytes: the key that PBKDF2 gives for PIN and salt
Pbkdf2(pin, salt) ==
    <<(Sum(Utf8Encode(pin)) + Sum(salt)) % 256,
      (Len(pin) + 3 * At(Utf8Encode(pin), 1) + 5 * At(salt, 1)) % 256>>

\* encryptKeyWithPin on bytes
encryptKeyWithPinBytes(key, pin, salt, keyIv) ==
    [encryptedKeyHex |-> HexOfBytes(SealBytes(Pbkdf2(pin, salt), keyIv, key)),
     keyIvHex |-> HexOfBytes(keyIv),
     saltHex |-> HexOfBytes(salt)]

\* decryptKeyWithPin on bytes: the raw key that importKey is given
decryptKeyWithPinBytes(encryptedKeyHex, keyIvHex, saltHex, pin, msg) ==
    LET salt == BytesOfHex(saltHex)
        pinKey == Pbkdf2(pin, salt)
        encryptedKey == BytesOfHex(encryptedKeyHex)
        keyIv == BytesOfHex(keyIvHex)
    IN  OpenBytes(pinKey, keyIv, encryptedKey, msg)

\* Texts: empty, "hi", an e with acute accent, a euro sign and a line feed
CryptoTexts == { <<>>, <<104, 105>>, <<233>>, <<8364, 10>> }
CryptoKeys == { <<1, 200>>, <<16, 0, 255>> }
\* "1234", "0000", "4321"
CryptoPins == { <<49, 50, 51, 52>>, <<48, 48, 48, 48>>, <<52, 51, 50, 49>> }
CryptoIvs == { <<0, 15>>, <<255, 9>> }
CryptoSalts == { <<7>>, <<128, 1>> }

NoResult == [t |-> "none"]

NoCalls ==
    [text |-> <<>>, key |-> <<>>, pin |-> <<>>, iv |-> <<>>, enc |-> NoResult,
     dec |-> NoResult, wrapped |-> NoResult, tried |-> <<>>, unwrapped |-> NoResult,
     fed |-> NoResult, got |-> NoResult, fedKey |-> NoResult, gotKey |-> NoResult]

(***************************************************************************)
(* The Redis store: id -> [value, expireAt].  A key is gone at expireAt.   *)
(***************************************************************************)
NoStore == [i \in {} |-> Undefined]

\* a SETEX that also restarts the time of every other key
setexTouchesAll(st, id, ttl, value) ==
    [i \in DOMAIN st \cup {id} |->
        IF i = id THEN [value |-> value, expireAt |-> now + ttl]
        ELSE [st[i] EXCEPT !.expireAt = now + ttl]]

setex(st, id, ttl, value) ==
    [i \in DOMAIN st \cup {id} |->
        IF i = id THEN [value |-> value, expireAt |-> now + ttl] ELSE st[i]]

\* a GETDEL that hands out the value of some key of the store
getdelOfAnyKey(st, id) ==
    IF id \in DOMAIN st
    THEN [data |-> st[CHOOSE i \in DOMAIN st : TRUE].value,
          store |-> [i \in DOMAIN st \ {id} |-> st[i]]]
    ELSE [data |-> Undefined, store |-> st]

\* GET without DEL: the value is read and the key stays
getdelKeepsKey(st, id) ==
    IF id \in DOMAIN st
    THEN [data |-> st[id].value, store |-> st]
    ELSE [data |-> Undefined, store |-> st]

getdel(st, id) ==
    IF id \in DOMAIN st
    THEN [data |-> st[id].value, store |-> [i \in DOMAIN st \ {id} |-> st[i]]]
    ELSE [data |-> Undefined, store |-> st]

\* no key ever expires
ReapNothing(st, t) == st

Reap(st, t) == [i \in {j \in DOMAIN st : t < st[j].expireAt} |-> st[i]]

RedisFaults == {"none", "down"}

(***************************************************************************)
(* The relay's route handlers.                                             *)
(***************************************************************************)
Falsy(v) == v.t \in {"undefined", "empty"}

\* an identifier that a stored record is using
randomUUIDInUse == IF DOMAIN store = {} THEN nextId ELSE CHOOSE i \in DOMAIN store : TRUE

\* the identifier that was given out last is given out again
randomUUIDRepeats == IF nextId > 1 THEN nextId - 1 ELSE nextId

randomUUID == nextId

\* a default of one hour
DefaultTtlHour(ttlSeconds) == IF ttlSeconds.t = "undefined" THEN 3600 ELSE ttlSeconds.n

DefaultTtl(ttlSeconds) == IF ttlSeconds.t = "undefined" THEN 86400 ELSE ttlSeconds.n

\* What request.json() gives for the body "null"
NullBody == [t |-> "null"]

\* POST /api/secret: the response and the store it leaves.  Destructuring null
\* throws, and the catch block answers 500.
POST(st, body, id, fault) ==
    IF body = NullBody
    THEN [status |-> 500, id |-> 0, store |-> st]
    ELSE IF Falsy(body.encryptedHex) \/ Falsy(body.ivHex)
    THEN [status |-> 400, id |-> 0, store |-> st]
    ELSE IF fault = "down"
    THEN [status |-> 500, id |-> 0, store |-> st]
    ELSE [status |-> 200, id |-> id,
          store |-> setex(st, id, DefaultTtl(body.ttlSeconds),
                          JSONstringify([encryptedHex |-> body.encryptedHex,
                                         ivHex |-> body.ivHex]))]

NoBody == [encryptedHex |-> Undefined, ivHex |-> Undefined]

\* a GET that answers from what it read earlier and leaves the store alone
GETFromCache(st, id, fault) ==
    IF id = 0
    THEN [status |-> 400, body |-> NoBody, store |-> st]
    ELSE IF fault = "down"
    THEN [status |-> 500, body |-> NoBody, store |-> st]
    ELSE IF id \notin DOMAIN st
    THEN [status |-> 404, body |-> NoBody, store |-> st]
    ELSE [status |-> 200,
          body |-> [encryptedHex |-> st[id].value.of.encryptedHex,
                    ivHex |-> st[id].value.of.ivHex],
          store |-> st]

\* GET /api/secret?id=...: the response and the store it leaves
GET(st, id, fault) ==
    IF id = 0
    THEN [status |-> 400, body |-> NoBody, store |-> st]
    ELSE IF fault = "down"
    THEN [status |-> 500, body |-> NoBody, store |-> st]
    ELSE LET got == getdel(st, id)
         IN  IF got.data.t = "undefined"
             THEN [status |-> 404, body |-> NoBody, store |-> got.store]
             ELSE LET parsed == JSONparse(got.data)
                  IN  IF ~parsed.ok
                      THEN [status |-> 500, body |-> NoBody, store |-> got.store]
                      ELSE [status |-> 200,
                            body |-> [encryptedHex |-> parsed.val.encryptedHex,
                                      ivHex |-> parsed.val.ivHex],
                            store |-> got.store]

(***************************************************************************)
(* State.                                                                  *)
(*   store      the Redis keys that have not expired                       *)
(*   now        the clock, in seconds                                      *)
(*   nextId     the next identifier randomUUID gives                       *)
(*   rng        the last value drawn from the browser's random source      *)
(*   snd, rcv   the React state and the position of each component         *)
(*   api        the other clients of the relay's HTTP interface            *)
(*   shared     the links that senders have been shown                     *)
(*   relaySeen  every request that was sent to the relay                   *)
(*   hist       for each id, the relay's store operations on it, in order  *)
(*   posts      the POST requests of the other clients, with the answers   *)
(*   cr         the arguments and results of calls of the crypto functions *)
(* and snd[s].made keeps every encryption that form s has made.            *)
(***************************************************************************)
NoUrl == [t |-> "none"]
NoReq == [t |-> "none"]
NoToast == ""

SenderInit ==
    [pc |-> "form", secret |-> <<>>, pin |-> <<>>, ttl |-> 86400,
     loading |-> FALSE, shareableUrl |-> NoUrl, toast |-> NoToast,
     req |-> NoReq, resp |-> NoReq, frag |-> Undefined, made |-> <<>>]

Hash(arg) == [t |-> "hash", prefix |-> "#key=", arg |-> arg]

Url(id, hash) == [t |-> "url", id |-> id, hash |-> hash]

PostsSent == Cardinality({m \in relaySeen : m.method = "POST"})

\* The fragment material each form puts in the link (part after "#key=")
FragmentOf(s, key, keyData) ==
    IF s = "direct"
    THEN encodeURIComponent(exportKey(key))
    ELSE encodeURIComponent(btoa(JSONstringify(keyData)))

\* a body that carries the text itself where the ciphertext belongs
PostBodyPlain(enc, ttl) ==
    [encryptedHex |-> arrayBufferToHex(enc.encryptedHex.of.data), ivHex |-> enc.ivHex,
     ttlSeconds |-> [t |-> "num", n |-> ttl]]

PostBody(enc, ttl) ==
    [encryptedHex |-> enc.encryptedHex, ivHex |-> enc.ivHex,
     ttlSeconds |-> [t |-> "num", n |-> ttl]]

\* What crypto.subtle.encrypt was called for in one handleSubmit, in order:
\* by encrypt and, in the PIN form, by encryptKeyWithPin
Sealed(s, enc, keyData) ==
    IF s = "direct" THEN <<enc.encryptedHex.of>>
    ELSE <<enc.encryptedHex.of, keyData.encryptedKeyHex.of>>

\* a check that lets every PIN pass
PinNeverTooShort(pin) == FALSE

PinTooShort(pin) == Trim(pin) = <<>> \/ Len(pin) < 4

\* handleSubmit up to the POST it sends
Submit(s, secret, pin, ttl) ==
    /\ snd[s].pc = "form"
    /\ snd[s].shareableUrl = NoUrl
    /\ PostsSent < MaxSecrets
    /\ LET typed == [snd[s] EXCEPT !.secret = secret, !.pin = pin, !.ttl = ttl]
           kept == [snd[s] EXCEPT !.secret = secret, !.pin = pin]
           key == AesKey(rng + 1)
           enc == encrypt(secret, key, Nonce(rng + 2))
           keyData == encryptKeyWithPin(key, pin, Salt(rng + 3), Nonce(rng + 4))
           body == PostBody(enc, ttl)
       IN  IF Trim(secret) = <<>>
           THEN /\ snd' = [snd EXCEPT ![s] = kept]
                /\ UNCHANGED <<rng, relaySeen>>
           ELSE IF s = "pin" /\ PinTooShort(pin)
           THEN /\ snd' = [snd EXCEPT ![s] =
                              [kept EXCEPT !.toast = "PIN must be at least 4 characters"]]
                /\ UNCHANGED <<rng, relaySeen>>
           ELSE /\ snd' = [snd EXCEPT ![s] =
                              [typed EXCEPT !.loading = TRUE, !.pc = "posting",
                                            !.req = body,
                                            !.frag = FragmentOf(s, key, keyData),
                                            !.made = @ \o Sealed(s, enc, keyData)]]
                /\ rng' = rng + (IF s = "direct" THEN 2 ELSE 4)
                /\ relaySeen' = relaySeen \cup {[method |-> "POST", body |-> body]}
    /\ UNCHANGED <<store, now, nextId, rcv, api, shared, hist, posts, cr>>

\* One store operation of the relay, as hist keeps it: a create with its ttl n
\* and the fields it stored, or a consume with the fields it returned.
Event(op, id, status, n, body) ==
    [op |-> op, id |-> id, status |-> status, at |-> now, n |-> n, body |-> body]

Stored(body) == [encryptedHex |-> body.encryptedHex, ivHex |-> body.ivHex]

UnknownId == MaxSecrets + 1

Ids == 1..UnknownId

Log(h, e) == [h EXCEPT ![e.id] = Append(@, e)]

\* The relay runs POST for the request of sender s
ServePost(s, fault) ==
    /\ snd[s].pc = "posting"
    /\ LET res == POST(store, snd[s].req, randomUUID, fault)
       IN  /\ store' = res.store
           /\ nextId' = IF res.status = 200 THEN nextId + 1 ELSE nextId
           /\ snd' = [snd EXCEPT ![s].pc = "responded",
                                 ![s].resp = [status |-> res.status, id |-> res.id]]
           /\ hist' = IF res.status = 200
                      THEN Log(hist, Event("create", res.id, 200,
                                              DefaultTtl(snd[s].req.ttlSeconds),
                                              Stored(snd[s].req)))
                      ELSE hist
    /\ UNCHANGED <<now, rng, rcv, api, shared, relaySeen, posts, cr>>

\* handleSubmit from the response on
SubmitDone(s) ==
    /\ snd[s].pc = "responded"
    /\ LET url == Url(snd[s].resp.id, Hash(snd[s].frag))
           ok == snd[s].resp.status = 200
           done == [snd[s] EXCEPT !.pc = "form", !.loading = FALSE,
                                  !.req = NoReq, !.resp = NoReq, !.frag = Undefined]
       IN  /\ snd' = [snd EXCEPT ![s] =
                        IF ok
                        THEN [done EXCEPT !.shareableUrl = url]
                        ELSE [done EXCEPT !.toast =
                                  "Failed to create secret. Please try again."]]
           /\ shared' = IF ok THEN shared \cup {url} ELSE shared
    /\ UNCHANGED <<store, now, nextId, rng, rcv, api, relaySeen, hist, posts, cr>>

\* handleSubmit when fetch rejects: the request or its response was lost
SubmitFails(s) ==
    /\ snd[s].pc \in {"posting", "responded"}
    /\ snd' = [snd EXCEPT ![s] =
                 [snd[s] EXCEPT !.pc = "form", !.loading = FALSE, !.req = NoReq,
                                !.resp = NoReq, !.frag = Undefined,
                                !.toast = "Failed to create secret. Please try again."]]
    /\ UNCHANGED <<store, now, nextId, rng, rcv, api, shared, relaySeen, hist, posts, cr>>

handleReset(s) ==
    /\ snd[s].pc = "form"
    /\ snd[s].shareableUrl # NoUrl
    /\ snd' = [snd EXCEPT ![s].secret = <<>>, ![s].pin = <<>>,
                          ![s].shareableUrl = NoUrl, ![s].ttl = 86400]
    /\ UNCHANGED <<store, now, nextId, rng, rcv, api, shared, relaySeen, hist, posts, cr>>

\* Time passes up to the next instant at which a key's time is up, and Redis
\* drops the keys that are due.  Between two such instants the store is the same.
NextExpiry(st) ==
    CHOOSE t \in {st[i].expireAt : i \in DOMAIN st} :
        \A i \in DOMAIN st : t <= st[i].expireAt

Tick ==
    /\ DOMAIN store # {}
    /\ now' = NextExpiry(store)
    /\ store' = Reap(store, NextExpiry(store))
    /\ UNCHANGED <<nextId, rng, snd, rcv, api, shared, relaySeen, hist, posts, cr>>

(***************************************************************************)
(* The receiver: ViewSecret.                                               *)
(***************************************************************************)
NoError == ""
NotFoundText == "Secret not found. It may have already been viewed or expired."
MissingKeyText == "Invalid link: Missing decryption key"
InvalidPinText == "Invalid PIN. Please check and try again."
CorruptedText == "Failed to decrypt secret. The link may be invalid or corrupted."

NoKeyData ==
    [encryptedKeyHex |-> Undefined, keyIvHex |-> Undefined, saltHex |-> Undefined]

EmptyHash == [t |-> "hash", prefix |-> "", arg |-> Undefined]

\* The fields are the component's React state (pin, loading, revealed, secret,
\* error), its props and URL (id, hash), the locals a running handleReveal
\* holds (keyData, resp, fetched, key) with its position pc, and exit: the
\* place where the last call of handleReveal ended, kept for the properties.
ReceiverInit ==
    [mounted |-> FALSE, id |-> 0, hash |-> EmptyHash, pin |-> <<>>,
     loading |-> FALSE, revealed |-> FALSE, secret |-> <<>>, error |-> NoError,
     pc |-> "idle", resp |-> NoReq, keyData |-> NoKeyData, fetched |-> NoBody,
     key |-> Undefined, exit |-> "none"]

\* Fragments that no sender form produced
MalformedHashes ==
    { EmptyHash,
      Hash(encodeURIComponent([t |-> "garbage"])),
      Hash(encodeURIComponent(btoa(JSONstringify(
          [saltHex |-> arrayBufferToHex(Salt(0))])))) }

\* The page /view/[id]#... is opened in a browser tab
Mount(r, id, hash) ==
    /\ ~rcv[r].mounted
    /\ rcv' = [rcv EXCEPT ![r].mounted = TRUE, ![r].id = id, ![r].hash = hash]
    /\ UNCHANGED <<store, now, nextId, rng, snd, api, shared, relaySeen, hist, posts, cr>>

\* a render that keeps the PIN form on screen after the reveal
ViewKeepsForm(r) ==
    IF rcv[r].error # NoError /\ ~rcv[r].revealed
    THEN [kind |-> "error", heading |-> "Secret Not Found",
          text |-> rcv[r].error,
          note |-> "It may have already been viewed or it expired."]
    ELSE [kind |-> "form", heading |-> "Secure Message Ready",
          text |-> "", note |-> "Enter the PIN to decrypt and view the secret message."]

\* What the component renders
View(r) ==
    IF rcv[r].error # NoError /\ ~rcv[r].revealed
    THEN [kind |-> "error", heading |-> "Secret Not Found",
          text |-> rcv[r].error,
          note |-> "It may have already been viewed or it expired."]
    ELSE IF rcv[r].revealed
    THEN [kind |-> "revealed", heading |-> "Your Secret",
          text |-> "", note |-> "This message has been destroyed from the server"]
    ELSE [kind |-> "form", heading |-> "Secure Message Ready",
          text |-> "", note |-> "Enter the PIN to decrypt and view the secret message."]

\* const { encryptedKeyHex, keyIvHex, saltHex } = keyData
Field(obj, name) == IF name \in DOMAIN obj THEN obj[name] ELSE Undefined

Destructure(obj) ==
    [encryptedKeyHex |-> Field(obj, "encryptedKeyHex"),
     keyIvHex |-> Field(obj, "keyIvHex"),
     saltHex |-> Field(obj, "saltHex")]

\* handleReveal, lines 46-53: the key data in the URL hash, or what is thrown
ParseHash(hash) ==
    IF hash.prefix # "#key="
    THEN Throw("Error", <<"Missing ", "decrypt", "ion key", " in URL">>)
    ELSE LET decoded == decodeURIComponent(hash.arg)
         IN  IF ~decoded.ok THEN decoded
             ELSE LET binary == atob(decoded.val)
                  IN  IF ~binary.ok THEN binary
                      ELSE LET keyData == JSONparse(binary.val)
                           IN  IF ~keyData.ok THEN keyData
                               ELSE Return(Destructure(keyData.val))

\* a catch block that answers the missing-key error with the not-found text
CatchMessageNotFound(err) ==
    IF Includes(err.message, <<"Missing ", "decrypt", "ion key">>)
    THEN NotFoundText
    ELSE IF Includes(err.message, <<"decrypt">>) \/ Includes(err.message, <<"operation">>)
    THEN InvalidPinText
    ELSE CorruptedText

\* handleReveal's catch block: the text it sets for the error it caught
CatchMessage(err) ==
    IF Includes(err.message, <<"Missing ", "decrypt", "ion key">>)
    THEN MissingKeyText
    ELSE IF Includes(err.message, <<"Secret not found">>)
    THEN NotFoundText
    ELSE IF Includes(err.message, <<"decrypt">>) \/ Includes(err.message, <<"operation">>)
    THEN InvalidPinText
    ELSE CorruptedText

\* a catch block that also switches to the revealed view
CaughtReveals(r, err, exit) ==
    [rcv[r] EXCEPT !.error = CatchMessage(err), !.loading = FALSE, !.pc = "idle",
                   !.resp = NoReq, !.keyData = NoKeyData, !.fetched = NoBody,
                   !.key = Undefined, !.exit = exit, !.revealed = TRUE]

\* catch and finally of handleReveal; the locals of the call are gone
Caught(r, err, exit) ==
    [rcv[r] EXCEPT !.error = CatchMessage(err), !.loading = FALSE, !.pc = "idle",
                   !.resp = NoReq, !.keyData = NoKeyData, !.fetched = NoBody,
                   !.key = Undefined, !.exit = exit]

\* The user types pin and presses the button: setPin, then handleReveal up to
\* the GET it sends.  The button and the Enter key call handleReveal only with
\* a PIN typed and nothing loading, so its own empty-PIN return is never taken.
handleReveal(r, pin) ==
    /\ rcv[r].mounted
    /\ View(r).kind = "form"
    /\ ~rcv[r].loading
    /\ Trim(pin) # <<>>
    /\ LET keyData == ParseHash(rcv[r].hash)
       IN  IF ~keyData.ok
           THEN /\ rcv' = [rcv EXCEPT ![r] = [Caught(r, keyData, "parse") EXCEPT !.pin = pin]]
                /\ UNCHANGED relaySeen
           ELSE /\ rcv' = [rcv EXCEPT ![r].loading = TRUE, ![r].error = NoError,
                                      ![r].pin = pin,
                                      ![r].pc = "fetching",
                                      ![r].keyData = keyData.val]
                /\ relaySeen' = relaySeen \cup
                                    {[method |-> "GET", query |-> [id |-> rcv[r].id]]}
    /\ UNCHANGED <<store, now, nextId, rng, snd, api, shared, hist, posts, cr>>

\* The relay runs GET for the request of receiver r
ServeGet(r, fault) ==
    /\ rcv[r].pc = "fetching"
    /\ LET res == GET(store, rcv[r].id, fault)
       IN  /\ store' = res.store
           /\ rcv' = [rcv EXCEPT ![r].pc = "responded",
                                 ![r].resp = [status |-> res.status, body |-> res.body]]
           /\ hist' = IF fault = "none"
                      THEN Log(hist, Event("consume", rcv[r].id, res.status,
                                              0, res.body))
                      ELSE hist
    /\ UNCHANGED <<now, nextId, rng, snd, api, shared, relaySeen, posts, cr>>

\* a client that sends the GET again when the fetch rejects
FetchFailsRetries(r) ==
    /\ rcv[r].pc \in {"fetching", "responded"}
    /\ rcv' = [rcv EXCEPT ![r].pc = "fetching", ![r].resp = NoReq]
    /\ UNCHANGED <<store, now, nextId, rng, snd, api, shared, relaySeen, hist, posts, cr>>

\* fetch rejects: the request or its response was lost on the way
FetchFails(r) ==
    /\ rcv[r].pc \in {"fetching", "responded"}
    /\ rcv' = [rcv EXCEPT ![r] = Caught(r, Throw("TypeError", <<"Failed to fetch">>), "rejected")]
    /\ UNCHANGED <<store, now, nextId, rng, snd, api, shared, relaySeen, hist, posts, cr>>

\* handleReveal, lines 58-68: the response has arrived
OnResponse(r) ==
    /\ rcv[r].pc = "responded"
    /\ rcv' = [rcv EXCEPT ![r] =
                 IF rcv[r].resp.status = 404
                 THEN [rcv[r] EXCEPT !.error = NotFoundText, !.loading = FALSE,
                                     !.pc = "idle", !.resp = NoReq,
                                     !.keyData = NoKeyData, !.exit = "notfound"]
                 ELSE IF rcv[r].resp.status # 200
                 THEN Caught(r, Throw("Error", <<"Failed to retrieve secret">>), "notok")
                 ELSE [rcv[r] EXCEPT !.pc = "unwrap", !.resp = NoReq,
                                     !.fetched = rcv[r].resp.body]]
    /\ UNCHANGED <<store, now, nextId, rng, snd, api, shared, relaySeen, hist, posts, cr>>

\* handleReveal, line 71: decryptKeyWithPin settles
Unwrap(r, msg) ==
    /\ rcv[r].pc = "unwrap"
    /\ LET key == decryptKeyWithPin(rcv[r].keyData.encryptedKeyHex,
                                    rcv[r].keyData.keyIvHex,
                                    rcv[r].keyData.saltHex, rcv[r].pin, msg)
       IN  rcv' = [rcv EXCEPT ![r] =
                     IF ~key.ok THEN Caught(r, key, "unwrap")
                     ELSE [rcv[r] EXCEPT !.pc = "decrypt", !.key = key.val]]
    /\ UNCHANGED <<store, now, nextId, rng, snd, api, shared, relaySeen, hist, posts, cr>>

\* handleReveal, lines 74-76: decryptWithKey settles
Decrypt(r, msg) ==
    /\ rcv[r].pc = "decrypt"
    /\ LET decrypted == decryptWithKey(rcv[r].fetched.encryptedHex, rcv[r].key,
                                       rcv[r].fetched.ivHex, msg)
       IN  rcv' = [rcv EXCEPT ![r] =
                     IF ~decrypted.ok THEN Caught(r, decrypted, "decrypt")
                     ELSE [rcv[r] EXCEPT !.secret = decrypted.val, !.revealed = TRUE,
                                         !.loading = FALSE, !.pc = "idle",
                                         !.keyData = NoKeyData, !.fetched = NoBody,
                                         !.key = Undefined, !.exit = "revealed"]]
    /\ UNCHANGED <<store, now, nextId, rng, snd, api, shared, relaySeen, hist, posts, cr>>

(***************************************************************************)
(* Other clients of the relay: anything that can send HTTP requests.       *)
(***************************************************************************)
CallerInit == [pc |-> "idle", id |-> 0, resp |-> NoReq]

\* The bodies a client posts: both fields, encryptedHex left out, ivHex empty,
\* and the JSON text null
BodyKinds == {"full", "noCiphertext", "emptyIv", "null"}

ApiBody(kind, enc, ttl) ==
    IF kind = "null" THEN NullBody
    ELSE [encryptedHex |-> IF kind = "noCiphertext" THEN Undefined ELSE enc.encryptedHex,
          ivHex |-> IF kind = "emptyIv" THEN [t |-> "empty"] ELSE enc.ivHex,
          ttlSeconds |-> ttl]

\* A client posts a ciphertext of its own; the relay runs POST and answers.
\* ttl is a number of seconds, or Undefined when the field is left out.
ApiPost(kind, ttl) ==
    /\ nextId <= MaxSecrets
    /\ LET fresh == kind = "full"
           enc == IF fresh
                  THEN encrypt(<<"h", "i">>, AesKey(rng + 1), Nonce(rng + 2))
                  ELSE encrypt(<<"h", "i">>, AesKey(0), Nonce(0))
           body == ApiBody(kind, enc, ttl)
           res == POST(store, body, randomUUID, "none")
       IN  /\ store' = res.store
           /\ nextId' = IF res.status = 200 THEN nextId + 1 ELSE nextId
           /\ rng' = IF fresh THEN rng + 2 ELSE rng
           /\ relaySeen' = relaySeen \cup {[method |-> "POST", body |-> body]}
           /\ posts' = posts \cup {[body |-> body, status |-> res.status, id |-> res.id]}
           /\ hist' = IF res.status = 200
                      THEN Log(hist, Event("create", res.id, res.status,
                                              DefaultTtl(ttl), Stored(body)))
                      ELSE hist
    /\ UNCHANGED <<now, snd, rcv, api, shared, cr>>

\* A client sends GET /api/secret?id=...  Callers are numbered in the order
\* in which they send.
ApiGet(c, id) ==
    /\ api[c].pc = "idle"
    /\ IF c = 1 THEN TRUE ELSE api[c - 1].pc # "idle"
    /\ api' = [api EXCEPT ![c].pc = "sent", ![c].id = id]
    /\ relaySeen' = relaySeen \cup {[method |-> "GET", query |-> [id |-> id]]}
    /\ UNCHANGED <<store, now, nextId, rng, snd, rcv, shared, hist, posts, cr>>

\* The relay runs GET for the request of caller c
ServeApiGet(c, fault) ==
    /\ api[c].pc = "sent"
    /\ LET res == GET(store, api[c].id, fault)
       IN  /\ store' = res.store
           /\ api' = [api EXCEPT ![c].pc = "done",
                                 ![c].resp = [status |-> res.status, body |-> res.body]]
           /\ hist' = IF res.status \in {200, 404}
                      THEN Log(hist, Event("consume", api[c].id, res.status,
                                              0, res.body))
                      ELSE hist
    /\ UNCHANGED <<now, nextId, rng, snd, rcv, shared, relaySeen, posts, cr>>

(***************************************************************************)
(* The system.                                                             *)
(***************************************************************************)
Init ==
    /\ store = NoStore
    /\ now = 0
    /\ nextId = 1
    /\ rng = 0
    /\ snd = [s \in Senders |-> SenderInit]
    /\ rcv = [r \in Receivers |-> ReceiverInit]
    /\ api = [c \in Callers |-> CallerInit]
    /\ shared = {}
    /\ relaySeen = {}
    /\ hist = [i \in Ids |-> <<>>]
    /\ posts = {}
    /\ cr = NoCalls

\* The forms are filled in with a secret and a PIN they accept, and the
\* expiry select is left as it is
SenderStep ==
    \E s \in Senders :
        \/ Submit(s, <<"h", "i">>, IF s = "pin" THEN <<"1", "2", "3", "4">> ELSE <<>>,
                  snd[s].ttl)
        \/ SubmitDone(s)
        \/ handleReset(s)

ReceiverStep ==
    \E r \in Receivers :
        \/ \E id \in {u.id : u \in shared} \cup {UnknownId},
              hash \in {u.hash : u \in shared} \cup MalformedHashes :
                Mount(r, id, hash)
        \/ \E pin \in ReceiverPins : handleReveal(r, pin)
        \/ FetchFails(r)
        \/ OnResponse(r)
        \/ \E msg \in OperationErrorMessages : Unwrap(r, msg)
        \/ \E msg \in OperationErrorMessages : Decrypt(r, msg)

RelayStep ==
    \/ \E s \in Senders : ServePost(s, "none")
    \/ \E r \in Receivers, fault \in RedisFaults : ServeGet(r, fault)

Next ==
    \/ SenderStep
    \/ ReceiverStep
    \/ RelayStep
    \/ Tick

\* The sender forms, the relay and a receiver tab
Spec == Init /\ [][Next]_vars

\* ttlSeconds of a posted body: one hour, or left out
ApiTtls == {[t |-> "num", n |-> 3600], Undefined}

ApiStep ==
    \/ \E ttl \in ApiTtls : ApiPost("full", ttl)
    \/ \E c \in Callers, id \in Ids : ApiGet(c, id)
    \/ \E c \in Callers, fault \in RedisFaults : ServeApiGet(c, fault)

NextRelay ==
    \/ ApiStep
    \/ Tick

\* The relay and the clients of its HTTP interface
SpecRelay == Init /\ [][NextRelay]_vars

\* ttlSeconds as any client may send it: also a number of seconds that the
\* form does not offer
StoreTtls == ApiTtls \cup {[t |-> "num", n |-> 90]}

\* Requests of every shape: POST with and without its fields, GET with and
\* without an id
StoreStep ==
    \/ \E ttl \in StoreTtls : ApiPost("full", ttl)
    \/ \E kind \in BodyKinds \ {"full"} : ApiPost(kind, Undefined)
    \/ \E id \in Ids \cup {0} : ApiGet(1, id)
    \/ \E fault \in RedisFaults : ServeApiGet(1, fault)

NextStore ==
    \/ StoreStep
    \/ Tick

\* The relay's two handlers under every kind of request
SpecStore == Init /\ [][NextStore]_vars

\* What is typed into the forms: no text, a blank, a text; no PIN, three
\* characters, four blanks, four and five characters
SenderSecrets == { <<>>, <<" ">>, <<"h", "i">> }
SenderPins ==
    { <<>>, <<"1", "2", "3">>, <<" ", " ", " ", " ">>, <<"1", "2", "3", "4">>,
      <<"9", "9", "9", "9", "9">> }

FormStep ==
    \E s \in Senders :
        \/ \E secret \in SenderSecrets,
              pin \in (IF s = "pin" THEN SenderPins ELSE {<<>>}) :
                Submit(s, secret, pin, snd[s].ttl)
        \/ SubmitDone(s)
        \/ SubmitFails(s)
        \/ handleReset(s)
        \/ \E fault \in RedisFaults : ServePost(s, fault)

NextSender == FormStep

\* The sender forms under every kind of input, and the relay answering them
SpecSender == Init /\ [][NextSender]_vars

\* A call of encrypt(text, key); iv is the nonce it draws
CallEncrypt(iv) ==
    /\ cr.enc = NoResult
    /\ cr' = [cr EXCEPT !.iv = iv, !.enc = encryptBytes(cr.text, cr.key, iv)]
    /\ UNCHANGED <<store, now, nextId, rng, snd, rcv, api, shared, relaySeen, hist, posts>>

\* A call of decryptWithKey on what encrypt returned, with the same key
CallDecryptWithKey(msg) ==
    /\ cr.enc # NoResult
    /\ cr.dec = NoResult
    /\ cr' = [cr EXCEPT !.dec = decryptWithKeyBytes(cr.enc.encryptedHex, cr.key,
                                                    cr.enc.ivHex, msg)]
    /\ UNCHANGED <<store, now, nextId, rng, snd, rcv, api, shared, relaySeen, hist, posts>>

\* A call of encryptKeyWithPin(key, pin); salt and keyIv are what it draws
CallEncryptKeyWithPin(salt, keyIv) ==
    /\ cr.wrapped = NoResult
    /\ cr' = [cr EXCEPT !.wrapped = encryptKeyWithPinBytes(cr.key, cr.pin, salt, keyIv)]
    /\ UNCHANGED <<store, now, nextId, rng, snd, rcv, api, shared, relaySeen, hist, posts>>

\* A call of decryptKeyWithPin on what encryptKeyWithPin returned, with pin
CallDecryptKeyWithPin(pin, msg) ==
    /\ cr.wrapped # NoResult
    /\ cr.unwrapped = NoResult
    /\ cr' = [cr EXCEPT !.tried = pin,
                        !.unwrapped = decryptKeyWithPinBytes(cr.wrapped.encryptedKeyHex,
                                                             cr.wrapped.keyIvHex,
                                                             cr.wrapped.saltHex, pin, msg)]
    /\ UNCHANGED <<store, now, nextId, rng, snd, rcv, api, shared, relaySeen, hist, posts>>

\* Hex strings that are not what encrypt and encryptKeyWithPin wrote: with one
\* digit more, with two characters that are no hex digits in the place of the
\* first byte, and with the last byte left out
HexEdits == {"oddDigits", "nonHex", "oneByteLess"}

EditHex(hex, edit) ==
    IF edit = "oddDigits" THEN hex \o <<"f">>
    ELSE IF edit = "nonHex" THEN <<"z", "z">> \o SubSeq(hex, 3, Len(hex))
    ELSE SubSeq(hex, 1, Len(hex) - 2)

\* A call of decryptWithKey with the key of encrypt and its two hex strings,
\* one of them edited
CallDecryptWithKeyOn(field, edit, msg) ==
    /\ cr.enc # NoResult
    /\ cr.got = NoResult
    /\ LET arg == [cr.enc EXCEPT ![field] = EditHex(@, edit)]
       IN  cr' = [cr EXCEPT !.fed = [field |-> field, edit |-> edit, arg |-> arg],
                            !.got = decryptWithKeyBytes(arg.encryptedHex, cr.key,
                                                        arg.ivHex, msg)]
    /\ UNCHANGED <<store, now, nextId, rng, snd, rcv, api, shared, relaySeen, hist, posts>>

\* A call of decryptKeyWithPin with the PIN of encryptKeyWithPin and its three
\* hex strings, one of them edited
CallDecryptKeyWithPinOn(field, edit, msg) ==
    /\ cr.wrapped # NoResult
    /\ cr.gotKey = NoResult
    /\ LET arg == [cr.wrapped EXCEPT ![field] = EditHex(@, edit)]
       IN  cr' = [cr EXCEPT !.fedKey = [field |-> field, edit |-> edit, arg |-> arg],
                            !.gotKey = decryptKeyWithPinBytes(arg.encryptedKeyHex,
                                                              arg.keyIvHex, arg.saltHex,
                                                              cr.pin, msg)]
    /\ UNCHANGED <<store, now, nextId, rng, snd, rcv, api, shared, relaySeen, hist, posts>>

InitCrypto ==
    /\ store = NoStore
    /\ now = 0
    /\ nextId = 1
    /\ rng = 0
    /\ snd = [s \in Senders |-> SenderInit]
    /\ rcv = [r \in Receivers |-> ReceiverInit]
    /\ api = [c \in Callers |-> CallerInit]
    /\ shared = {}
    /\ relaySeen = {}
    /\ hist = [i \in Ids |-> <<>>]
    /\ posts = {}
    /\ cr \in {[NoCalls EXCEPT !.text = t, !.key = k, !.pin = p] :
                  t \in CryptoTexts, k \in CryptoKeys, p \in CryptoPins}

NextCrypto ==
    \/ \E iv \in CryptoIvs : CallEncrypt(iv)
    \/ \E msg \in OperationErrorMessages : CallDecryptWithKey(msg)
    \/ \E salt \in CryptoSalts, keyIv \in CryptoIvs : CallEncryptKeyWithPin(salt, keyIv)
    \/ \E pin \in CryptoPins, msg \in OperationErrorMessages :
           CallDecryptKeyWithPin(pin, msg)

\* The functions of crypto.ts, called on texts, keys and PINs of every kind
SpecCrypto == InitCrypto /\ [][NextCrypto]_vars

NextLengths ==
    \/ \E iv \in CryptoIvs : CallEncrypt(iv)
    \/ \E salt \in CryptoSalts, keyIv \in CryptoIvs : CallEncryptKeyWithPin(salt, keyIv)
    \/ \E field \in {"encryptedHex", "ivHex"}, edit \in HexEdits,
            msg \in OperationErrorMessages : CallDecryptWithKeyOn(field, edit, msg)
    \/ \E field \in {"encryptedKeyHex", "keyIvHex", "saltHex"}, edit \in HexEdits,
            msg \in OperationErrorMessages : CallDecryptKeyWithPinOn(field, edit, msg)

\* The decrypting functions of crypto.ts, called on hex strings that the
\* encrypting functions did not write
SpecLengths == InitCrypto /\ [][NextLengths]_vars

(***************************************************************************)
(* Properties of the relay (SpecRelay).                                    *)
(***************************************************************************)
Reads(i) == {j \in DOMAIN hist[i] : hist[i][j].op = "consume"}

Hits(i) == {j \in Reads(i) : hist[i][j].status = 200}

Born(i) == {j \in DOMAIN hist[i] : hist[i][j].op = "create" /\ hist[i][j].status = 200}

Created(i) == Born(i) # {}

Birth(i) == hist[i][CHOOSE j \in Born(i) : TRUE]

CreatedFirst(i) == 1 \in Born(i)

ExpiresAt(i) == Birth(i).at + Birth(i).n

\* The calls for id i that the relay has answered from its store
Answered(i) ==
    {c \in Callers : api[c].pc = "done" /\ api[c].id = i /\ api[c].resp.status # 500}

\* C1: for a record that exists under id, of the GET calls for that id that run
\* concurrently, in any interleaving, exactly one is answered 200 with the
\* record's ciphertext and iv, and every other one is answered 404.
C1_ExactlyOneCallReturnsTheRecord ==
    \A i \in Ids :
        LET got == {c \in Answered(i) : api[c].resp.status = 200}
        IN  /\ Cardinality(got) <= 1
            /\ \A c \in got : Created(i) /\ api[c].resp.body = Birth(i).body
            /\ ( /\ Answered(i) # {}
                 /\ CreatedFirst(i)
                 /\ \A j \in Reads(i) : hist[i][j].at < ExpiresAt(i) )
               => /\ Cardinality(got) = 1
                  /\ \A c \in Answered(i) \ got : api[c].resp.status = 404

\* Caller 1 sent its GET first and is answered 404, caller 2 sent second and is
\* answered 200: both requests were waiting at the relay at the same time.
C1_Witness ==
    \E i \in Ids :
        /\ CreatedFirst(i)
        /\ {1, 2} \subseteq Answered(i)
        /\ api[2].resp.status = 200
        /\ api[1].resp.status = 404

\* C2: burn after reading.  Over any sequence of creates, consumes and
\* expiries a record is returned by consume at most once, and every consume of
\* an id that comes after one that returned the record returns NotFound.
C2_BurnAfterReading ==
    \A i \in Ids :
        /\ Cardinality(Hits(i)) <= 1
        /\ \A j \in Hits(i) : \A k \in Reads(i) : k > j => hist[i][k].status = 404

C2_Witness ==
    \E i \in Ids : \E j \in Hits(i) : \E k \in Reads(i) :
        k > j /\ hist[i][k].status = 404

\* C3: expiry.  A record created with time-to-live ttl is not returned by any
\* consume that runs once ttl has elapsed since its creation: such a consume
\* returns NotFound, and the store holds no record whose time is up.
C3_ExpiredRecordIsNotFound ==
    /\ \A i \in Ids : \A j \in Reads(i) :
           (Created(i) /\ hist[i][j].at >= ExpiresAt(i))
               => hist[i][j].status = 404
    /\ \A i \in DOMAIN store :
           /\ Created(i)
           /\ store[i].expireAt = ExpiresAt(i)
           /\ now < store[i].expireAt

\* A record that nobody consumed is asked for after its time and is not found
C3_Witness ==
    \E i \in Ids :
        /\ Created(i)
        /\ Hits(i) = {}
        /\ \E j \in Reads(i) :
               hist[i][j].at >= ExpiresAt(i) /\ hist[i][j].status = 404

(***************************************************************************)
(* Properties of the forms, the relay and the receiver together (Spec).    *)
(***************************************************************************)
IsCiphertextHex(v) ==
    v.t = "hex" /\ v.of.t = "ct" /\ v.of.key.t = "key" /\ v.of.data.t = "utf8"

IsIvHex(v) == v.t = "hex" /\ v.of.t = "iv"

\* The request is a POST of ciphertext, iv and ttl, or a GET of an id
OnlyCiphertext(m) ==
    IF m.method = "POST"
    THEN /\ DOMAIN m = {"method", "body"}
         /\ DOMAIN m.body = {"encryptedHex", "ivHex", "ttlSeconds"}
         /\ IsCiphertextHex(m.body.encryptedHex)
         /\ IsIvHex(m.body.ivHex)
         /\ m.body.encryptedHex.of.iv = m.body.ivHex.of
         /\ m.body.ttlSeconds.t = "num"
    ELSE /\ DOMAIN m = {"method", "query"}
         /\ DOMAIN m.query = {"id"}
         /\ m.query.id \in Ids

\* The values the relay was sent or keeps
RelayValues ==
    UNION {{m.body.encryptedHex, m.body.ivHex} : m \in {x \in relaySeen : x.method = "POST"}}
    \cup UNION {{store[i].value.of.encryptedHex, store[i].value.of.ivHex} : i \in DOMAIN store}

IsPinFragment(arg) == arg.of.of.t = "json"

\* What a fragment made by a form carries: the key, or wrappedKey, wrapIv and salt
Material(arg) ==
    IF IsPinFragment(arg)
    THEN {arg, arg.of, arg.of.of,
          arg.of.of.of.encryptedKeyHex, arg.of.of.of.keyIvHex, arg.of.of.of.saltHex}
    ELSE {arg, arg.of, arg.of.of, arg.of.of.of}

Fragments ==
    {u.hash.arg : u \in shared} \cup
    {snd[s].frag : s \in {x \in Senders : snd[x].frag # Undefined}}

\* C4: zero knowledge of the relay.  In every reachable state each request sent
\* to the relay is a POST of ciphertext, iv and ttl or a GET of an id, each
\* stored record is ciphertext and iv, and no fragment material (key,
\* wrappedKey, wrapIv, salt) is among the values the relay was sent or keeps.
C4_RelaySeesOnlyCiphertext ==
    /\ \A m \in relaySeen : OnlyCiphertext(m)
    /\ \A i \in DOMAIN store :
           /\ store[i].value.t = "json"
           /\ DOMAIN store[i].value.of = {"encryptedHex", "ivHex"}
           /\ IsCiphertextHex(store[i].value.of.encryptedHex)
           /\ IsIvHex(store[i].value.of.ivHex)
    /\ \A arg \in Fragments : Material(arg) \cap RelayValues = {}

\* A PIN link was made, its record is stored, and a receiver has asked for it
C4_Witness ==
    \E u \in shared :
        /\ IsPinFragment(u.hash.arg)
        /\ u.id \in DOMAIN store
        /\ [method |-> "GET", query |-> [id |-> u.id]] \in relaySeen
        /\ \E m \in relaySeen : m.method = "POST"

\* The link that the tab has open is one a form made
Untampered(r) == rcv[r].mounted /\ Url(rcv[r].id, rcv[r].hash) \in shared

\* C5: PIN retry without re-fetch.  After the record was fetched and the PIN
\* unwrap failed, the receiver can enter another PIN, and the ciphertext and
\* iv it fetched are still in client memory for the new attempt.
C5_RetryUsesCachedCiphertext ==
    \A r \in Receivers :
        rcv[r].exit = "unwrap"
            => /\ View(r).kind = "form"
               /\ rcv[r].fetched # NoBody

\* C6: both envelope modes can be opened.  With a link as a form made it, in
\* Direct mode or in PIN-wrapped mode, and the right PIN where one is asked,
\* a reveal that did not end at the relay's answer ends in Revealed with the
\* text that the sender encrypted.
C6_BothModesOpen ==
    \A r \in Receivers :
        ( /\ Untampered(r)
          /\ rcv[r].exit \notin {"none", "notfound", "notok", "rejected"}
          /\ IsPinFragment(rcv[r].hash.arg) => rcv[r].pin = <<"1", "2", "3", "4">> )
            => /\ rcv[r].revealed
               /\ rcv[r].secret = <<"h", "i">>

\* The view tells the user that the secret was not found
ShowsNotFound(v) ==
    v.kind = "error" /\ (v.heading = "Secret Not Found" \/ v.text = NotFoundText)

\* C7: when the PIN unwrap fails, the receiver reports an incorrect PIN, and
\* what it renders does not say that the secret was not found.
C7_WrongPinIsNotNotFound ==
    \A r \in Receivers :
        rcv[r].exit = "unwrap"
            => /\ View(r).text = InvalidPinText
               /\ ~ShowsNotFound(View(r))

\* C8: when the unwrap succeeds and decrypting the secret fails, the receiver
\* reports link corruption; the wrong-PIN text comes only from a failure of
\* the unwrap step.
C8_DecryptFailureIsCorruption ==
    \A r \in Receivers :
        /\ rcv[r].exit = "decrypt" => rcv[r].error = CorruptedText
        /\ rcv[r].error = InvalidPinText => rcv[r].exit = "unwrap"

\* C9: the receiver shows 'secret not found' if and only if its GET for the id
\* was answered 404.
C9_NotFoundIffRelaySaidSo ==
    \A r \in Receivers : ShowsNotFound(View(r)) <=> rcv[r].exit = "notfound"

\* The state of the receiver's state machine that a tab is in
RStateOf(t) ==
    IF t.revealed THEN "Revealed"
    ELSE IF t.pc \in {"fetching", "responded"} THEN "Fetching"
    ELSE IF t.pc \in {"unwrap", "decrypt"} THEN "Decrypting"
    ELSE IF t.error = NotFoundText THEN "NotFound"
    ELSE IF t.error # NoError THEN "Failed"
    ELSE "AwaitingInput"

RState(r) == RStateOf(rcv[r])

ClaimedMoves ==
    { <<"AwaitingInput", "Fetching">>,
      <<"Fetching", "NotFound">>, <<"Fetching", "Decrypting">>,
      <<"Decrypting", "Revealed">>, <<"Decrypting", "Failed">> }

\* Failed is also entered when the fragment is rejected before any fetch and
\* when the fetch is rejected or answered with a status other than 200 and 404
ActualMoves ==
    ClaimedMoves \cup { <<"AwaitingInput", "Failed">>, <<"Fetching", "Failed">> }

\* C10 as stated: the receiver takes only the moves AwaitingInput -> Fetching
\* -> {NotFound, Decrypting} and Decrypting -> {Revealed, Failed}.
C10_OnlyClaimedMoves ==
    [][\A r \in Receivers :
           RState(r)' # RState(r) => <<RState(r), RState(r)'>> \in ClaimedMoves]_vars

\* C10: the receiver follows AwaitingInput -> {Fetching, Failed}, Fetching ->
\* {NotFound, Decrypting, Failed}, Decrypting -> {Revealed, Failed} and takes
\* no other transition: NotFound is entered only from Fetching and Revealed
\* only from Decrypting.
C10_ReceiverStateMachine ==
    [][\A r \in Receivers :
           RState(r)' # RState(r) => <<RState(r), RState(r)'>> \in ActualMoves]_vars

\* The receiver has failed without a record fetched
C10_Witness ==
    \E r \in Receivers :
        RState(r) = "Failed" /\ rcv[r].exit \in {"parse", "notok", "rejected"}

\* C11: Revealed is terminal.  Once revealed is true the component stays in
\* the revealed view, starts no further handleReveal, and no further consume
\* of its id is run for it.
C11_RevealedIsTerminal ==
    [][\A r \in Receivers :
           rcv[r].revealed
               => /\ rcv'[r].revealed
                  /\ View(r)'.kind = "revealed"
                  /\ rcv'[r].pc = "idle"
                  /\ rcv'[r].id = rcv[r].id
                  /\ rcv'[r].secret = rcv[r].secret
                  /\ Reads(rcv[r].id)' = Reads(rcv[r].id)]_vars

\* The secret is shown, its record is gone, and time has moved on since
C11_Witness ==
    \E r \in Receivers :
        /\ rcv[r].revealed
        /\ View(r).kind = "revealed"
        /\ Hits(rcv[r].id) # {}
        /\ \E j \in Hits(rcv[r].id) : hist[rcv[r].id][j].at < now

GetsSent == {m \in relaySeen : m.method = "GET"}

\* A GET of receiver r goes out in this step
SendsGet(r) == rcv'[r].pc = "fetching" /\ rcv[r].pc # "fetching"

\* C12: consume is never retried automatically.  A GET goes out only when the
\* user presses Reveal in the form and no earlier attempt of the component has
\* ended, so one attempt sends one GET; after a GET that was answered with an
\* error status or was lost, the client sends nothing more.
C12_NoAutomaticRetry ==
    [][\A r \in Receivers :
           /\ SendsGet(r)
                 => /\ rcv[r].pc = "idle"
                    /\ rcv[r].exit = "none"
                    /\ View(r).kind = "form"
           /\ GetsSent' # GetsSent => SendsGet(r)
           /\ rcv[r].exit \in {"notok", "rejected"}
                 => /\ ~SendsGet(r)
                    /\ GetsSent' = GetsSent
                    /\ rcv'[r].pc = "idle"
           /\ \A i \in Ids : Cardinality(Reads(i))' <= 1]_vars

\* A GET was answered 500 or lost, and the component has stopped
C12_Witness ==
    \E r \in Receivers :
        /\ rcv[r].exit \in {"notok", "rejected"}
        /\ rcv[r].pc = "idle"
        /\ [method |-> "GET", query |-> [id |-> rcv[r].id]] \in GetsSent

\* The relay answers the GET of caller c in this step, from its store
AnswersGet(c) ==
    /\ api[c].pc = "sent" /\ api'[c].pc = "done"
    /\ api[c].id \in Ids /\ api'[c].resp.status # 500

\* C13: every GET that carries an id runs exactly one atomic consume on the
\* store and is answered from that consume alone: 200 with the fields of the
\* record that was in the store, which the same step removes, or 404 when the
\* store has no record of the id, and then the store is left as it was.
C13_EveryGetConsumes ==
    [][\A c \in Callers :
           AnswersGet(c) =>
               LET i == api[c].id
                   resp == api'[c].resp
               IN  /\ Len(hist'[i]) = Len(hist[i]) + 1
                   /\ hist'[i][Len(hist'[i])].op = "consume"
                   /\ IF i \in DOMAIN store
                      THEN /\ resp.status = 200
                           /\ resp.body = store[i].value.of
                           /\ DOMAIN store' = DOMAIN store \ {i}
                      ELSE /\ resp.status = 404
                           /\ resp.body = NoBody
                           /\ store' = store]_vars

\* A GET was answered with a record that the store no longer has, after
\* another operation on the same id
C13_Witness ==
    \E c \in Callers :
        /\ api[c].pc = "done"
        /\ api[c].resp.status = 200
        /\ api[c].id \notin DOMAIN store
        /\ Len(hist[api[c].id]) >= 2

\* C14: the store holds at most one record per id, and a create inserts under
\* an id that no record uses or has used: it leaves every record that is in
\* the store as it was.
C14_CreateUsesFreshId ==
    [][\A i \in Ids :
           /\ Cardinality(Born(i))' <= 1
           /\ Born(i)' # Born(i)
                 => /\ Born(i) = {}
                    /\ i \notin DOMAIN store
                    /\ DOMAIN store' = DOMAIN store \cup {i}
                    /\ \A j \in DOMAIN store : store'[j] = store[j]]_vars

\* Two records are in the store at the same time
C14_Witness ==
    \E i, j \in DOMAIN store :
        i # j /\ Created(i) /\ Created(j) /\ store[i].value # store[j].value

(***************************************************************************)
(* Properties of the relay's handlers under every request (SpecStore).     *)
(***************************************************************************)
\* The relay answers the request of caller c in this step with status
GetAnswered(c, status) ==
    api[c].pc = "sent" /\ api'[c].pc = "done" /\ api'[c].resp.status = status

\* The POST answered in this step, if it was not answered the same before
NewPosts == posts' \ posts

\* One new record comes in and nothing else changes
Inserted ==
    \E p \in NewPosts :
        /\ p.status = 200
        /\ p.id \notin DOMAIN store
        /\ DOMAIN store' = DOMAIN store \cup {p.id}
        /\ store'[p.id].value.of = Stored(p.body)

\* The record that a GET returns goes out and nothing else changes
Removed ==
    \E c \in Callers :
        /\ GetAnswered(c, 200)
        /\ api[c].id \in DOMAIN store
        /\ api'[c].resp.body = store[api[c].id].value.of
        /\ DOMAIN store' = DOMAIN store \ {api[c].id}

\* The records whose time is up at the new time go out
Expired ==
    /\ now' > now
    /\ DOMAIN store' = {i \in DOMAIN store : now' < store[i].expireAt}
    /\ api' = api /\ posts' = posts

\* C15: the record set changes only by create (one new record), by a
\* successful consume (the record read is removed) and by expiry.  No step
\* changes the ciphertext, iv or expiry time of a record that stays, no GET
\* returns a record and leaves it in the store, and a GET answered 404, a GET
\* without id and a rejected POST leave the record set as it was.
C15_OnlyCreateConsumeExpire ==
    [][/\ store' # store => (Inserted \/ Removed \/ Expired)
       /\ \A i \in DOMAIN store \cap DOMAIN store' : store'[i] = store[i]
       /\ \A c \in Callers :
              /\ GetAnswered(c, 200) => api[c].id \notin DOMAIN store'
              /\ (GetAnswered(c, 404) \/ GetAnswered(c, 400)) => store' = store
       /\ \A p \in NewPosts : p.status # 200 => store' = store]_vars

\* With a record in the store, a POST was rejected and a GET without id was
\* answered, and the record is still there
C15_Witness ==
    /\ DOMAIN store # {}
    /\ \E p \in posts : p.status = 400
    /\ \E c \in Callers : api[c].pc = "done" /\ api[c].id = 0 /\ api[c].resp.status = 400
    /\ \E i \in DOMAIN store : Len(hist[i]) = 1

\* The field is not in the body, or is the empty string
Absent(v) == v = Undefined \/ v = [t |-> "empty"]

MissingField(body) ==
    body = NullBody \/ Absent(body.encryptedHex) \/ Absent(body.ivHex)

\* C16: a POST in which encryptedHex or ivHex is absent or empty is answered
\* 400 without an id, and stores no record.
C16_PostWithoutFieldsIsRejected ==
    [][/\ \A p \in NewPosts :
              MissingField(p.body)
                  => /\ p.status = 400
                     /\ p.id = 0
                     /\ store' = store
                     /\ nextId' = nextId
                     /\ hist' = hist
       /\ \A i \in DOMAIN store' :
              ~MissingField(store'[i].value.of)]_vars

\* The time-to-live that a body asks for
AskedTtl(body) ==
    IF body.ttlSeconds = Undefined THEN 86400 ELSE body.ttlSeconds.n

\* C17: a POST without ttlSeconds stores its record with a time-to-live of
\* 86400 seconds, and a POST with a positive integer ttlSeconds, one of the
\* form's three options or not, is accepted and stores its record with
\* exactly that time-to-live.
C17_TtlIsDefaultOrAsGiven ==
    \A p \in posts :
        ~MissingField(p.body)
            => /\ p.status = 200
               /\ Created(p.id)
               /\ Birth(p.id).body = Stored(p.body)
               /\ p.id \in DOMAIN store
                     => store[p.id].expireAt = Birth(p.id).at + AskedTtl(p.body)
               /\ p.id \in DOMAIN store \/ Hits(p.id) # {}
                     \/ now >= Birth(p.id).at + AskedTtl(p.body)

\* A record posted without ttlSeconds and one posted with 90 seconds are stored
C17_Witness ==
    /\ \E p \in posts :
           /\ p.status = 200 /\ p.body.ttlSeconds = Undefined
           /\ p.id \in DOMAIN store
           /\ store[p.id].expireAt = Birth(p.id).at + 86400
    /\ \E p \in posts :
           /\ p.status = 200 /\ p.body.ttlSeconds # Undefined
           /\ p.body.ttlSeconds.n \notin {3600, 86400, 604800}
           /\ p.id \in DOMAIN store

(***************************************************************************)
(* Store fidelity and the round trips of the crypto functions.             *)
(***************************************************************************)
\* The key that the client of post p encrypted with
KeyOf(p) == p.body.encryptedHex.of.key

\* C18: store fidelity.  The consume that returns the record of an id yields
\* exactly the ciphertext and iv that were posted for that id, decrypting that
\* pair with the poster's key gives the posted text, and any other consume of
\* the id returns NotFound.
C18_StoreFidelity ==
    \A c \in Callers :
        (api[c].pc = "done" /\ api[c].resp.status = 200)
            => /\ \E p \in posts :
                     /\ p.status = 200
                     /\ p.id = api[c].id
                     /\ api[c].resp.body = Stored(p.body)
                     /\ decryptWithKey(api[c].resp.body.encryptedHex, KeyOf(p),
                                       api[c].resp.body.ivHex, <<>>)
                            = Return(<<"h", "i">>)
               /\ \A d \in Callers \ {c} :
                      (api[d].pc = "done" /\ api[d].id = api[c].id
                           /\ api[d].resp.status # 500)
                          => api[d].resp.status = 404

\* Two records were posted; one was returned by a first consume and a second
\* consume of its id found nothing
C18_Witness ==
    \E c, d \in Callers :
        /\ api[c].pc = "done" /\ api[c].resp.status = 200
        /\ api[d].pc = "done" /\ api[d].id = api[c].id /\ api[d].resp.status = 404
        /\ Cardinality({p.id : p \in {q \in posts : q.status = 200}}) >= 2

C20_PinWrapRoundTrip ==
    cr.unwrapped # NoResult
        => IF cr.tried = cr.pin
           THEN cr.unwrapped = Return(cr.key)
           ELSE /\ ~cr.unwrapped.ok
                /\ cr.unwrapped.name = "OperationError"

\* One key was unwrapped with its PIN, and an unwrap with another PIN of the
\* same digits failed
C20_Witness ==
    /\ cr.unwrapped # NoResult
    /\ cr.tried # cr.pin
    /\ ~cr.unwrapped.ok
    /\ Sum(cr.tried) = Sum(cr.pin)

\* C21: fixed lengths are enforced.  A call of decryptWithKey or of
\* decryptKeyWithPin with a hex string of an odd number of digits, with
\* characters that are no hex digits, or with a nonce, salt or ciphertext one
\* byte short is rejected with an InvalidParameter failure: it returns nothing.
C21_WrongLengthIsRejected ==
    /\ cr.got # NoResult => ~cr.got.ok /\ cr.got.name = "InvalidParameter"
    /\ cr.gotKey # NoResult => ~cr.gotKey.ok /\ cr.gotKey.name = "InvalidParameter"

\* The encryptions the forms have made, each named by its form and its place
Encryptions == {e \in Senders \X (1..(4 * MaxSecrets)) : e[2] \in DOMAIN snd[e[1]].made}

Made(e) == snd[e[1]].made[e[2]]

\* C22: nonce and key freshness.  Over every sequence of secret creations,
\* any two encryptions (of a text by encrypt, of a key by encryptKeyWithPin)
\* have different nonces, so that the nonce of the key wrap is not the nonce
\* of the text, and different keys, so that every generated key and every
\* key derived from a PIN encrypts one message; no pair of key and nonce is
\* used twice.
C22_FreshNoncesAndKeys ==
    \A e, f \in Encryptions :
        e # f => /\ Made(e).iv # Made(f).iv
                 /\ Made(e).key # Made(f).key
                 /\ <<Made(e).key, Made(e).iv>> # <<Made(f).key, Made(f).iv>>

\* The PIN form made two secrets with the same PIN, so four encryptions
C22_Witness ==
    /\ Len(snd["pin"].made) = 4
    /\ \E e, f \in Encryptions :
           /\ e # f
           /\ Made(e).key.t = "pinkey"
           /\ Made(f).key.t = "pinkey"
           /\ Made(e).key.pin = Made(f).key.pin

\* A fragment that starts with "#key=", decodes as URI component, base64 and
\* JSON, and holds all of encryptedKeyHex, keyIvHex and saltHex
WellFormed(hash) ==
    /\ hash.prefix = "#key="
    /\ hash.arg.t = "uri"
    /\ hash.arg.of.t = "b64"
    /\ hash.arg.of.of.t = "json"
    /\ {"encryptedKeyHex", "keyIvHex", "saltHex"} \subseteq DOMAIN hash.arg.of.of.of

\* C23: a malformed fragment never burns the secret.  When the page was
\* opened with a fragment that is absent, does not start with "#key=", cannot
\* be decoded, or lacks one of the three fields, no GET is ever sent and no
\* record is consumed, whatever PINs are tried.
C23_MalformedFragmentNeverBurns ==
    \A r \in Receivers :
        rcv[r].mounted /\ ~WellFormed(rcv[r].hash)
            => /\ GetsSent = {}
               /\ rcv[r].pc = "idle"
               /\ \A i \in Ids : Reads(i) = {}

\* The places where a call of handleReveal ends without a secret
FailingExits == {"parse", "rejected", "notfound", "notok", "unwrap", "decrypt"}

\* The text that the record returned for id i decrypts to, with the key that
\* the fragment and the PIN of tab r give; no text when a step of it fails
Opened(r, i) ==
    LET keyData == ParseHash(rcv[r].hash)
    IN  IF ~keyData.ok THEN {}
        ELSE LET key == decryptKeyWithPin(keyData.val.encryptedKeyHex,
                                          keyData.val.keyIvHex,
                                          keyData.val.saltHex, rcv[r].pin, <<>>)
             IN  IF ~key.ok THEN {}
                 ELSE {decryptWithKey(hist[i][j].body.encryptedHex, key.val,
                                      hist[i][j].body.ivHex, <<>>) : j \in Hits(i)}

\* C24: no plaintext is exposed on failure.  In every state of the receiver,
\* revealed is true only after a call of handleReveal in which the GET
\* returned the record, the unwrap with the PIN succeeded and the decrypt
\* succeeded, and secret is then the decryption of that record; in every other
\* state, and after every failing path, secret is empty and revealed false.
C24_NoPlaintextOnFailure ==
    \A r \in Receivers :
        /\ rcv[r].revealed
              => /\ rcv[r].exit = "revealed"
                 /\ rcv[r].id \in Ids
                 /\ Cardinality(Hits(rcv[r].id)) = 1
                 /\ Opened(r, rcv[r].id) = {Return(rcv[r].secret)}
        /\ ~rcv[r].revealed => rcv[r].secret = <<>>
        /\ rcv[r].exit \in FailingExits => ~rcv[r].revealed /\ rcv[r].secret = <<>>

\* The secret of a form is on screen in the tab
C24_Witness ==
    \E r \in Receivers :
        /\ rcv[r].revealed
        /\ rcv[r].secret # <<>>
        /\ \E s \in Senders : rcv[r].secret = snd[s].secret

Blank(text) == \A k \in DOMAIN text : text[k] = " "

\* Form s sends a POST in this step
SendsPost(s) == snd[s].pc = "form" /\ snd'[s].pc = "posting"

\* The link shown by form s has the id of a record that the relay created,
\* and its fragment holds the material for the key K of that record's
\* ciphertext: in the PIN form K wrapped, with the nonce and the salt of that
\* wrap, in the other form K itself
UrlCarries(s) ==
    LET url == snd[s].shareableUrl
    IN  /\ url.id \in Ids
        /\ Created(url.id)
        /\ url.hash.prefix = "#key="
        /\ LET K == Birth(url.id).body.encryptedHex.of.key
               arg == url.hash.arg.of
           IN  IF s = "pin"
               THEN LET keyData == arg.of.of
                        wrap == keyData.encryptedKeyHex.of
                    IN  /\ DOMAIN keyData = {"encryptedKeyHex", "keyIvHex", "saltHex"}
                        /\ wrap.data = RawKey(K)
                        /\ wrap.key = [t |-> "pinkey", pin |-> wrap.key.pin,
                                       salt |-> keyData.saltHex.of]
                        /\ wrap.iv = keyData.keyIvHex.of
               ELSE arg = btoa(RawKey(K))

\* C25: sender ordering.  handleSubmit sends no POST when the secret is blank
\* or, in the PIN form, the PIN is blank or shorter than 4 characters.  A link
\* is set only in the step that follows a POST answered with success, and it
\* has the id of that answer and the key material made for the key of the
\* ciphertext that was posted.  When the POST fails no link is shown.
C25_SenderOrdering ==
    [][/\ relaySeen' # relaySeen
           => \E s \in Senders :
                  /\ SendsPost(s)
                  /\ ~Blank(snd'[s].secret)
                  /\ s = "pin" => ~Blank(snd'[s].pin) /\ Len(snd'[s].pin) >= 4
                  /\ relaySeen' = relaySeen \cup {[method |-> "POST", body |-> snd'[s].req]}
       /\ \A s \in Senders :
              /\ SendsPost(s) => relaySeen' # relaySeen
              /\ snd'[s].shareableUrl # NoUrl /\ snd'[s].shareableUrl # snd[s].shareableUrl
                     => /\ snd[s].pc = "responded"
                        /\ snd[s].resp.status = 200
                        /\ snd'[s].shareableUrl.id = snd[s].resp.id
                        /\ Birth(snd[s].resp.id).body = Stored(snd[s].req)
                        /\ UrlCarries(s)'
              /\ snd[s].pc \in {"posting", "responded"} /\ snd'[s].pc = "form"
                     /\ (snd[s].pc = "posting" \/ snd[s].resp.status # 200)
                     => snd'[s].shareableUrl = NoUrl
              /\ snd[s].pc \in {"posting", "responded"} => snd[s].shareableUrl = NoUrl]_vars

\* After a POST of the PIN form that failed, a second one succeeded and its
\* link is shown
C25_Witness ==
    /\ snd["pin"].shareableUrl # NoUrl
    /\ Len(snd["pin"].made) = 4
    /\ Cardinality(shared) = 1
    /\ snd["direct"].made = <<>>
====
